---- MODULE Spec2Model ----
(***************************************************************************)
(* Model of lib/debug/ProfilingPlugin.js: the Profiler (inspector session  *)
(* commands), createTrace (bootstrap events and the id counter), the       *)
(* wrappers built by makeNewProfiledTapFn for sync, async and promise      *)
(* taps, and the "done" handler that merges the CPU profile and flushes.   *)
(*                                                                         *)
(* The host (hook calls, the "done" signal), the underlying tap functions  *)
(* and the inspector session are the environment: their choices are the    *)
(* \E-bound inputs of the actions.                                         *)
(***************************************************************************)
EXTENDS Integers, Sequences, FiniteSets

\* ---------------------------------------------------------------- bounds
\* Number of wrapped hook invocations the host makes in one run.
MaxInv == 2
\* Number of callback calls the async underlyings make in one run.
MaxFire == 2

\* ---------------------------------------------------------------- inputs
\* The taps the host registers through the interceptors (one per type):
\* label is the registry's label, hookName the hook, name the name the tap
\* was registered under.
Taps ==
  { [label |-> "Compiler", hookName |-> "build",   name |-> "plugin",  type |-> "sync"],
    [label |-> "Compiler", hookName |-> "emit",    name |-> "emitter", type |-> "async"],
    [label |-> "Resolver", hookName |-> "resolve", name |-> "plugin",  type |-> "promise"] }

\* A tap whose type is none of the three the wrapper factory knows.
UnknownTap == [label |-> "Compiler", hookName |-> "compile", name |-> "legacy", type |-> "waterfall"]
\* Every tap the host registers.
HostTaps == Taps \cup { UnknownTap }

\* Values an underlying returns / resolves with, and errors it raises.
Values == {"42", "v2"}
Errors == {"e1", "e2"}
\* Non-callback arguments the host passes to a hook.
HostArgs == { <<"a1">> }
\* Argument lists an async underlying completes with: (err), (null, v).
CbResults == { <<"e1">>, <<"null", "v1">> }
\* Argument lists an async underlying passes when it calls the host's
\* callback itself (no code of the wrapper sees them).
DirectResults == { <<"null", "v1">> }
\* Times reported by a CPU profile.
SampleProfiles == { [startTime |-> 1000, endTime |-> e] : e \in {1000, 5000} }

\* The three commands startProfiling posts (lines 18-22), in posting order.
StartCommandSeq == << "Profiler.setSamplingInterval", "Profiler.enable", "Profiler.start" >>
StartCommands == { StartCommandSeq[n] : n \in DOMAIN StartCommandSeq }

\* What the session has done with the three start commands when
\* startProfiling() returns: it calls the callback of post either later,
\* from the event loop (all still pending), or inside post() itself (each
\* command already answered, with or without an error).
PostAnswers ==
  { [c \in StartCommands |-> "pending"] }
    \cup [StartCommands -> {"resolved", "rejected"}]

\* The value standing for the host's original trailing callback.
OrigCb == "cb"
\* The value standing for the replacement callback built on line 318.
ReplCb == "cb'"
IsFunction(v) == v \in {OrigCb, ReplCb}

VARIABLES
  inspector,    \* line 3-9: TRUE iff require("inspector") succeeded
  phase,        \* position of apply() / the done handler chain
  session,      \* Profiler.session: "none" | "connected" | "disconnected"
  cmds,         \* status of each posted start command
  startPromise, \* the promise returned by startProfiling()
  stopCmd,      \* status / result of the Profiler.stop command
  unhandled,    \* rejected promises with no handler (reach the host)
  counter,      \* tracer.counter
  log,          \* events handed to tracer.trace, in order
  destroyCalls, \* number of profiler.destroy() calls
  flushCalls,   \* number of trace.flush() calls
  flushedLen,   \* Len(log) at the first flush
  invs,         \* the wrapped hook invocations made so far
  installed,    \* the tap descriptors returned by the interceptors' register
  trail         \* the steps of the done handler chain, in the order taken

vars == << inspector, phase, session, cmds, startPromise, stopCmd, unhandled,
           counter, log, destroyCalls, flushCalls, flushedLen, invs,
           installed, trail >>

\* ---------------------------------------------------------------- events
HookCat == "blink.user_timing"
TimelineCat == "disabled-by-default-devtools.timeline"

\* An event as passed to the Tracer.  ts, dur and args are sequences of
\* length 0 (field not given by the caller) or 1 (the given value); cat is
\* the one element of the category array.
Event(ph, name, id, cat, ts, dur, args, inv) ==
  [ph |-> ph, name |-> name, id |-> id, cat |-> cat,
   ts |-> ts, dur |-> dur, args |-> args, inv |-> inv]

\* trace.begin({name, id, cat: defaultCategory}); inv is the index of the
\* invocation emitting it (not a field of the real event).
BeginEvent(name, id, inv) == Event("B", name, id, HookCat, <<>>, <<>>, <<>>, inv)
EndEvent(name, id, inv) == Event("E", name, id, HookCat, <<>>, <<>>, <<>>, inv)

\* The args objects of the two bootstrap events (lines 80-90, 97-101).
BootstrapPageArgs ==
  << [data |-> [sessionId |-> "-1", page |-> "0xfff",
                frames |-> << [frame |-> "0xfff", url |-> "webpack", name |-> ""] >>]] >>
BootstrapBrowserArgs == << [data |-> [sessionId |-> "-1"]] >>

\* The args objects of the merge events (lines 157-160, 169-176, 184-188).
ToplevelArgs ==
  << [src_file |-> "../../ipc/ipc_moji_bootstrap.cc", src_func |-> "Accept"] >>
EvaluateScriptArgs ==
  << [data |-> [url |-> "webpack", lineNumber |-> 1, columnNumber |-> 1,
                frame |-> "0xFFF"]] >>
CpuProfileArgs(profile) == << [data |-> [cpuProfile |-> profile]] >>

\* createTrace handing out a counter that restarts at 0.
CreateTraceCounterReset ==
  LET c0 == 0
      c1 == c0 + 1
      c2 == c1 + 1
  IN  [log |-> << Event("I", "TracingStartedInPage", c1, TimelineCat, <<>>, <<>>,
                        BootstrapPageArgs, 0),
                  Event("I", "TracingStartedInBrowser", c2, TimelineCat, <<>>, <<>>,
                        BootstrapBrowserArgs, 0) >>,
       counter |-> c0]

\* createTrace: the local counter starts at 0, each bootstrap event takes
\* ++counter, and the tracer object gets a copy of the counter's value.
CreateTrace ==
  LET c0 == 0
      c1 == c0 + 1
      c2 == c1 + 1
  IN  [log |-> << Event("I", "TracingStartedInPage", c1, TimelineCat, <<>>, <<>>,
                        BootstrapPageArgs, 0),
                  Event("I", "TracingStartedInBrowser", c2, TimelineCat, <<>>, <<>>,
                        BootstrapBrowserArgs, 0) >>,
       counter |-> c2]

\* MergeEvents with the profile payload emitted before the evaluate span.
MergeEventsProfileFirst(profile, c) ==
  << Event("X", "TaskQueueManager::ProcessTaskFromWorkQueue", c + 1, "toplevel",
           <<profile.startTime>>, <<>>, ToplevelArgs, 0),
     Event("I", "CpuProfile", c + 2, TimelineCat,
           <<profile.endTime>>, <<>>, CpuProfileArgs(profile), 0),
     Event("X", "EvaluateScript", c + 3, "devtools.timeline",
           <<profile.startTime>>, <<profile.endTime - profile.startTime>>,
           EvaluateScriptArgs, 0) >>

\* The three events the done handler appends for a sample (lines 152-189).
MergeEvents(profile, c) ==
  << Event("X", "TaskQueueManager::ProcessTaskFromWorkQueue", c + 1, "toplevel",
           <<profile.startTime>>, <<>>, ToplevelArgs, 0),
     Event("X", "EvaluateScript", c + 2, "devtools.timeline",
           <<profile.startTime>>, <<profile.endTime - profile.startTime>>,
           EvaluateScriptArgs, 0),
     Event("I", "CpuProfile", c + 3, TimelineCat,
           <<profile.endTime>>, <<>>, CpuProfileArgs(profile), 0) >>

MergeNames == {"TaskQueueManager::ProcessTaskFromWorkQueue", "EvaluateScript", "CpuProfile"}

\* ------------------------------------------------------- Profiler (11-56)
\* startProfiling: with an inspector, a session is created and connected
\* and three commands are posted; the result is Promise.all of the three
\* sendCommand promises, which is pending when startProfiling returns even
\* if the session answered inside post (Promise.all settles in a later
\* microtask).  answers is the state of the three sendCommand promises at
\* that moment.  Without an inspector the result is Promise.resolve().
StartProfiling(insp, answers) ==
  IF insp
  THEN [session |-> "connected",
        cmds |-> answers,
        promise |-> "pending"]
  ELSE [session |-> "none",
        cmds |-> [c \in StartCommands |-> "unsent"],
        promise |-> "resolved"]

\* sendCommand without the test of this.session: the command is always
\* posted.
StopProfilingAlwaysPosts(sess) == [k |-> "pending", params |-> <<>>]

\* sendCommand("Profiler.stop"): posted when this.session is set (also after
\* a failed start, the session object is still there); otherwise
\* Promise.resolve(), i.e. resolved with undefined.
StopProfiling(sess) ==
  IF sess # "none"
  THEN [k |-> "pending", params |-> <<>>]
  ELSE [k |-> "undefined", params |-> <<>>]

\* The callback given to session.post (lines 32-38): an error rejects the
\* promise (with null), anything else resolves it with the result.
\* params is <<>> (no result) or <<result>>.
PostCallback(err, params) ==
  IF err
  THEN [k |-> "rejected", params |-> <<>>]
  ELSE [k |-> "resolved", params |-> params]

\* Promise.all over the start commands: rejected as soon as one is
\* rejected, resolved once all are resolved, pending otherwise.
PromiseAll(cs) ==
  IF \E c \in DOMAIN cs : cs[c] = "rejected" THEN "rejected"
  ELSE IF \A c \in DOMAIN cs : cs[c] = "resolved" THEN "resolved"
  ELSE "pending"

\* destroy(): disconnects the session when there is one.
Destroy(sess) == IF sess # "none" THEN "disconnected" ELSE sess

\* ------------------------------------- makeNewProfiledTapFn (285-357)
\* What an underlying does when called: for a sync tap it returns or
\* throws; an async or promise tap either throws synchronously or returns
\* (a promise / nothing) and completes later.
Ret(v) == [k |-> "ret", v |-> v]
Throw(e) == [k |-> "throw", v |-> e]
Later == [k |-> "later", v |-> "undefined"]

\* The record kept for one invocation of a wrapped tap.
\*   args     the wrapper's captured rest-array (args), as it is now
\*   fnArgs   the argument list the underlying was called with
\*   fnAt     Len(log) at the moment the underlying was called
\*   st       "returned" | "threw"            (sync; wrapper threw)
\*            "pending" | "resolved" | "rejected"   (promise)
\*            "inflight"                      (async)
\*   under    <<>> or <<what the underlying did: returned, threw, settled>>
\*   out      <<>> or <<what the wrapper's caller observes>>
\*   outAt    Len(log) at the moment out was set
\*   cbCalls  calls received by the original trailing callback
\*   fired    number of times the replacement callback was fired
\*   direct   number of times the underlying called the original callback
\*   typeErrors  TypeErrors raised inside the replacement callback
Invocation(tap, args, id, st, fnArgs, fnAt, under, out, outAt) ==
  [tap |-> tap, args |-> args, id |-> id, st |-> st, fnArgs |-> fnArgs,
   fnAt |-> fnAt, under |-> under, out |-> out, outAt |-> outAt,
   cbCalls |-> <<>>, fired |-> 0, direct |-> 0, typeErrors |-> 0]

\* The arguments the host calls a tap with: async taps get the host's
\* callback last.
CallArgs(type, a) == IF type = "async" THEN a \o << OrigCb >> ELSE a

RECURSIVE Wrapped(_, _, _, _, _, _, _)

\* The underlying of a sync tap runs between begin and end.  inner is <<>>
\* or <<a call>> of a wrapped tap the underlying makes before it returns
\* or throws; that call's events and id come before the end event.
RunFn(lg, c, inv, inner) ==
  IF inner = <<>>
  THEN [log |-> lg, counter |-> c, recs |-> <<>>]
  ELSE Wrapped(lg, c, inner[1].tap, inv + 1,
               CallArgs(inner[1].tap.type, inner[1].args), inner[1].beh, <<>>)

\* ProfiledSync without the end in the catch block.
ProfiledSyncNoEndOnThrow(lg, c, tap, inv, args, beh, inner) ==
  LET id == c + 1
      lg1 == Append(lg, BeginEvent(tap.name, id, inv))
      f == RunFn(lg1, id, inv, inner)
      lg2 == IF beh.k = "throw" THEN f.log ELSE Append(f.log, EndEvent(tap.name, id, inv))
  IN  [log |-> lg2, counter |-> f.counter,
       recs |-> << Invocation(tap, args, id,
                              IF beh.k = "throw" THEN "threw" ELSE "returned",
                              args, Len(lg1), << beh >>,
                              << IF beh.k = "throw" THEN Throw(beh.v) ELSE Ret(beh.v) >>,
                              Len(lg2)) >> \o f.recs]

\* case "sync" (lines 329-353): id = ++counter, begin, fn(...args) inside
\* try; on a throw: end, rethrow error; otherwise end, return r.
ProfiledSync(lg, c, tap, inv, args, beh, inner) ==
  LET id == c + 1
      lg1 == Append(lg, BeginEvent(tap.name, id, inv))
      f == RunFn(lg1, id, inv, inner)
      lg2 == Append(f.log, EndEvent(tap.name, id, inv))
  IN  [log |-> lg2, counter |-> f.counter,
       recs |-> << Invocation(tap, args, id,
                              IF beh.k = "throw" THEN "threw" ELSE "returned",
                              args, Len(lg1), << beh >>,
                              << IF beh.k = "throw" THEN Throw(beh.v) ELSE Ret(beh.v) >>,
                              Len(lg2)) >> \o f.recs]

\* case "promise" (lines 294-301): id = ++counter, begin, fn(...args); a
\* synchronous throw of fn leaves the wrapper before .then is attached.
ProfiledPromise(lg, c, tap, inv, args, beh) ==
  LET id == c + 1
      lg1 == Append(lg, BeginEvent(tap.name, id, inv))
  IN  [log |-> lg1, counter |-> id,
       recs |-> << IF beh.k = "throw"
                   THEN Invocation(tap, args, id, "threw", args, Len(lg1),
                                   << beh >>, << Throw(beh.v) >>, Len(lg1))
                   ELSE Invocation(tap, args, id, "pending", args, Len(lg1),
                                   <<>>, <<>>, 0) >>]

\* PromiseThen with the same handler attached for rejections as well
\* (.then(f, f)): a rejection becomes a resolution with the reason.
PromiseThenBothWays(lg, name, id, inv, settled) ==
  [log |-> Append(lg, EndEvent(name, id, inv)),
   st |-> "resolved", out |-> [k |-> "resolved", v |-> settled.v]]

\* PromiseThen whose handler emits end but does not return r.
PromiseThenDropsValue(lg, name, id, inv, settled) ==
  IF settled.k = "ok"
  THEN [log |-> Append(lg, EndEvent(name, id, inv)),
        st |-> "resolved", out |-> [k |-> "resolved", v |-> "undefined"]]
  ELSE [log |-> lg,
        st |-> "rejected", out |-> [k |-> "rejected", v |-> settled.v]]

\* .then(r => { end; return r }) (lines 301-308): only a fulfilment handler
\* is attached.  settled is [k |-> "ok" | "err", v |-> value].  A fulfilled
\* underlying runs the handler; a rejected one passes its reason through.
PromiseThen(lg, name, id, inv, settled) ==
  IF settled.k = "ok"
  THEN [log |-> Append(lg, EndEvent(name, id, inv)),
        st |-> "resolved", out |-> [k |-> "resolved", v |-> settled.v]]
  ELSE [log |-> lg,
        st |-> "rejected", out |-> [k |-> "rejected", v |-> settled.v]]

\* case "async" (lines 311-318): id = ++counter, begin, then
\* fn(...args, replacement): the underlying receives every captured
\* argument (the original callback included) followed by the replacement.
ProfiledAsync(lg, c, tap, inv, args, beh) ==
  LET id == c + 1
      lg1 == Append(lg, BeginEvent(tap.name, id, inv))
      fnArgs == args \o << ReplCb >>
  IN  [log |-> lg1, counter |-> id,
       recs |-> << IF beh.k = "throw"
                   THEN Invocation(tap, args, id, "threw", fnArgs, Len(lg1),
                                   << beh >>, << Throw(beh.v) >>, Len(lg1))
                   ELSE Invocation(tap, args, id, "inflight", fnArgs, Len(lg1),
                                   <<>>, <<>>, 0) >>]

\* Array.prototype.pop: removes and returns the last element, undefined
\* for an empty array.
Pop(a) ==
  IF Len(a) = 0
  THEN [val |-> "undefined", rest |-> a]
  ELSE [val |-> a[Len(a)], rest |-> SubSeq(a, 1, Len(a) - 1)]

\* callback(...r): the spread passes r element by element.
Spread(r) == r

\* A call of a wrapped tap: the wrapper for the tap's type (the switch of
\* makeNewProfiledTapFn).  A call made inside the underlying of a promise
\* or async tap leaves the same log as one made after the wrapper returned
\* (those wrappers append nothing after fn), so inner is a sync matter.
Wrapped(lg, c, tap, inv, args, beh, inner) ==
  CASE tap.type = "sync"    -> ProfiledSync(lg, c, tap, inv, args, beh, inner)
    [] tap.type = "promise" -> ProfiledPromise(lg, c, tap, inv, args, beh)
    [] tap.type = "async"   -> ProfiledAsync(lg, c, tap, inv, args, beh)

\* The replacement callback (...r) => {...} (lines 318-326): callback =
\* args.pop() on the captured array, end, callback(...r).  call is <<>>
\* when the popped value is not callable (a TypeError is raised instead).
ReplacementCallback(lg, name, id, inv, args, r) ==
  LET popped == Pop(args)
      lg1 == Append(lg, EndEvent(name, id, inv))
  IN  [log |-> lg1, args |-> popped.rest,
       call |-> IF IsFunction(popped.val)
                THEN << [callee |-> popped.val, given |-> r, got |-> Spread(r),
                         at |-> Len(lg1)] >>
                ELSE <<>>]

\* The switch of makeNewProfiledTapFn: a wrapper for the three known
\* types; the default branch breaks and the function returns undefined.
MakeNewProfiledTapFn(hookName, tap) ==
  IF tap.type \in {"promise", "async", "sync"}
  THEN "profiled " \o tap.type
  ELSE "undefined"

\* makeInterceptorFor(instance, tracer)(hookName).register({name, type, fn}):
\* the descriptor handed back to the host.  instance is not used.
Register(instance, hookName, tap) ==
  [name |-> tap.name, type |-> tap.type, fn |-> MakeNewProfiledTapFn(hookName, tap)]

\* The reaction of the stop promise flushing the log before the destroy.
StopThenFlushFirst(stop, lg, c, sess) ==
  IF stop.k = "rejected"
  THEN [log |-> lg, counter |-> c, session |-> sess, destroy |-> 0,
        flush |-> 0, phase |-> "stopRejected", unhandled |-> {"stopProfiling"},
        steps |-> <<>>]
  ELSE IF stop.k = "undefined" \/ stop.params = <<>>
  THEN [log |-> lg, counter |-> c, session |-> Destroy(sess), destroy |-> 1,
        flush |-> 1, phase |-> "finalized", unhandled |-> {},
        steps |-> << "flush", "destroy" >>]
  ELSE [log |-> lg \o MergeEvents(stop.params[1].profile, c), counter |-> c + 3,
        session |-> Destroy(sess), destroy |-> 1,
        flush |-> 1, phase |-> "finalized", unhandled |-> {},
        steps |-> << "merge", "flush", "destroy" >>]

\* ------------------------------------------- the done handler (138-195)
\* The callback of stopProfiling().then(...).  stop is the settled stop
\* promise.  A rejected promise never runs the callback, and nothing else
\* handles the rejection.  parsedResults == null: destroy, flush, return.
\* Otherwise the three merge events with ids ++tracer.counter, destroy,
\* flush.  steps lists the calls made, in order.
StopThen(stop, lg, c, sess) ==
  IF stop.k = "rejected"
  THEN [log |-> lg, counter |-> c, session |-> sess, destroy |-> 0,
        flush |-> 0, phase |-> "stopRejected", unhandled |-> {"stopProfiling"},
        steps |-> <<>>]
  ELSE IF stop.k = "undefined" \/ stop.params = <<>>
  THEN [log |-> lg, counter |-> c, session |-> Destroy(sess), destroy |-> 1,
        flush |-> 1, phase |-> "finalized", unhandled |-> {},
        steps |-> << "destroy", "flush" >>]
  ELSE [log |-> lg \o MergeEvents(stop.params[1].profile, c), counter |-> c + 3,
        session |-> Destroy(sess), destroy |-> 1,
        flush |-> 1, phase |-> "finalized", unhandled |-> {},
        steps |-> << "merge", "destroy", "flush" >>]

\* ------------------------------------------------------------ the machine
Init ==
  /\ inspector \in BOOLEAN
  /\ phase = "idle"
  /\ session = "none"
  /\ cmds = [c \in StartCommands |-> "unsent"]
  /\ startPromise = "none"
  /\ stopCmd = [k |-> "unsent", params |-> <<>>]
  /\ unhandled = {}
  /\ counter = 0
  /\ log = <<>>
  /\ destroyCalls = 0
  /\ flushCalls = 0
  /\ flushedLen = 0
  /\ invs = <<>>
  /\ installed = [t \in {} |-> t]
  /\ trail = <<>>

\* apply(compiler) (lines 113-196): createTrace, startProfiling (its promise
\* is dropped), the interceptors and the done handler are all installed in
\* the same synchronous run.
Apply(answers) ==
  /\ phase = "idle"
  /\ LET t == CreateTrace
         p == StartProfiling(inspector, answers)
     IN  /\ log' = t.log
         /\ counter' = t.counter
         /\ session' = p.session
         /\ cmds' = p.cmds
         /\ startPromise' = p.promise
  /\ installed' = [t \in HostTaps |-> Register(t.label, t.hookName, t)]
  /\ phase' = "awaiting"
  /\ UNCHANGED << inspector, stopCmd, unhandled, destroyCalls, flushCalls,
                  flushedLen, invs, trail >>

\* The session answers the oldest unanswered start command (callback of
\* post; a session answers its commands in the order they were posted).
\* The Promise.all of startProfiling follows the answers; apply() attached
\* no handler to it, so its rejection is unhandled.
AckStart(n, err) ==
  /\ cmds[StartCommandSeq[n]] = "pending"
  /\ \A m \in 1..(n - 1) : cmds[StartCommandSeq[m]] # "pending"
  /\ LET cs == [cmds EXCEPT ![StartCommandSeq[n]] = PostCallback(err, <<>>).k]
     IN  /\ cmds' = cs
         /\ startPromise' = IF startPromise = "pending" THEN PromiseAll(cs)
                            ELSE startPromise
         /\ unhandled' = IF startPromise = "pending" /\ PromiseAll(cs) = "rejected"
                         THEN unhandled \cup {"startProfiling"} ELSE unhandled
  /\ UNCHANGED << inspector, phase, session, stopCmd, counter, log,
                  destroyCalls, flushCalls, flushedLen, invs, installed, trail >>

\* The session answered inside post: the Promise.all of startProfiling
\* settles in a microtask after apply() has returned.  Synchronous host
\* code (hook calls) can run before it; apply() attached no handler to the
\* promise, so its rejection is unhandled.
StartPromiseSettles ==
  /\ startPromise = "pending"
  /\ PromiseAll(cmds) # "pending"
  /\ startPromise' = PromiseAll(cmds)
  /\ unhandled' = IF PromiseAll(cmds) = "rejected"
                  THEN unhandled \cup {"startProfiling"} ELSE unhandled
  /\ UNCHANGED << inspector, phase, session, cmds, stopCmd, counter, log,
                  destroyCalls, flushCalls, flushedLen, invs, installed, trail >>

\* The host fires "done": the handler starts sleep(2000).
Done ==
  /\ phase = "awaiting"
  /\ phase' = "sleeping"
  /\ trail' = Append(trail, "done")
  /\ UNCHANGED << inspector, session, cmds, startPromise, stopCmd, unhandled,
                  counter, log, destroyCalls, flushCalls, flushedLen, invs,
                  installed >>

\* The reaction of the stop promise: it runs in the microtask that follows
\* the settlement, before any other timer or session callback.
RunStopThen(stop, before) ==
  LET f == StopThen(stop, log, counter, session)
  IN  /\ stopCmd' = stop
      /\ trail' = trail \o before \o << "stopSettled" >> \o f.steps
      /\ log' = f.log
      /\ counter' = f.counter
      /\ session' = f.session
      /\ destroyCalls' = destroyCalls + f.destroy
      /\ flushCalls' = flushCalls + f.flush
      /\ flushedLen' = IF f.flush = 1 THEN Len(f.log) ELSE flushedLen
      /\ phase' = f.phase
      /\ unhandled' = unhandled \cup f.unhandled

\* The timer fires (after the microtasks of the ticks before it):
\* stopProfiling() is called.  With a session the stop
\* command is posted; without one the stop promise is already resolved and
\* its reaction runs at once.
SleepElapsed ==
  /\ phase = "sleeping"
  /\ ~(startPromise = "pending" /\ PromiseAll(cmds) # "pending")
  /\ LET stop == StopProfiling(session)
     IN  IF stop.k = "pending"
         THEN /\ phase' = "stopping"
              /\ stopCmd' = stop
              /\ trail' = trail \o << "sleepElapsed", "stopProfiling" >>
              /\ UNCHANGED << session, unhandled, counter, log, destroyCalls,
                              flushCalls, flushedLen >>
         ELSE RunStopThen(stop, << "sleepElapsed", "stopProfiling" >>)
  /\ UNCHANGED << inspector, cmds, startPromise, invs, installed >>

\* The session answers Profiler.stop, after the commands posted before it:
\* the stop promise settles and its reaction runs.
AckStop(err, params) ==
  /\ phase = "stopping"
  /\ stopCmd.k = "pending"
  /\ \A c \in StartCommands : cmds[c] # "pending"
  /\ RunStopThen(PostCallback(err, params), <<>>)
  /\ UNCHANGED << inspector, cmds, startPromise, invs, installed >>


\* The behaviours an underlying of the given type can show when called.
Behaviours(type) ==
  IF type = "sync"
  THEN { Ret(v) : v \in Values } \cup { Throw(e) : e \in Errors }
  ELSE { Later, Throw("e1") }

\* The behaviours of a tap called from inside another tap's underlying.
InnerBehaviours == { Ret("v2"), Throw("e2"), Later }

\* The calls of wrapped taps an underlying of the given type can make
\* before it returns: none, or (sync) one call of any wrapped tap.
InnerCalls(type) ==
  IF type = "sync"
  THEN { <<>> } \cup
       { << [tap |-> t, args |-> a, beh |-> b] >> :
           t \in Taps, a \in HostArgs, b \in InnerBehaviours }
  ELSE { <<>> }

\* The host calls a wrapped tap, at any time after apply(): the wrappers
\* test nothing.  Only a descriptor whose fn is a function can be called.
Invoke(tap, a, beh, inner) ==
  /\ tap \in DOMAIN installed
  /\ installed[tap].fn # "undefined"
  /\ \A n \in DOMAIN inner :
       /\ inner[n].tap \in DOMAIN installed
       /\ installed[inner[n].tap].fn # "undefined"
       /\ inner[n].beh \in Behaviours(inner[n].tap.type)
  /\ Len(invs) + 1 + Len(inner) <= MaxInv
  /\ LET w == Wrapped(log, counter, tap, Len(invs) + 1, CallArgs(tap.type, a), beh, inner)
     IN  /\ log' = w.log
         /\ counter' = w.counter
         /\ invs' = invs \o w.recs
  /\ UNCHANGED << inspector, phase, session, cmds, startPromise, stopCmd,
                  unhandled, destroyCalls, flushCalls, flushedLen, installed,
                  trail >>

\* The promise returned by a promise tap's underlying settles, and the
\* reaction attached by .then runs in the microtask that follows, settling
\* the wrapper's promise.
SettlePromise(i, k, v) ==
  /\ invs[i].tap.type = "promise"
  /\ invs[i].st = "pending"
  /\ LET t == PromiseThen(log, invs[i].tap.name, invs[i].id, i, [k |-> k, v |-> v])
     IN  /\ log' = t.log
         /\ invs' = [invs EXCEPT ![i].st = t.st,
                                 ![i].under = << [k |-> k, v |-> v] >>,
                                 ![i].out = << t.out >>,
                                 ![i].outAt = Len(t.log)]
  /\ UNCHANGED << inspector, phase, session, cmds, startPromise, stopCmd,
                  unhandled, counter, destroyCalls, flushCalls, flushedLen,
                  installed, trail >>

\* The number of callback calls made by the underlyings of invs[1..n].
RECURSIVE CallbackCalls(_)
CallbackCalls(n) ==
  IF n = 0 THEN 0 ELSE invs[n].fired + invs[n].direct + CallbackCalls(n - 1)

\* An async underlying calls the replacement callback (its last argument).
FireReplacement(i, r) ==
  /\ invs[i].tap.type = "async"
  /\ invs[i].st = "inflight"
  /\ CallbackCalls(Len(invs)) < MaxFire
  /\ LET f == ReplacementCallback(log, invs[i].tap.name, invs[i].id, i, invs[i].args, r)
     IN  /\ log' = f.log
         /\ invs' = [invs EXCEPT ![i].args = f.args,
                                 ![i].fired = @ + 1,
                                 ![i].cbCalls = @ \o f.call,
                                 ![i].typeErrors = @ + (1 - Len(f.call))]
  /\ UNCHANGED << inspector, phase, session, cmds, startPromise, stopCmd,
                  unhandled, counter, destroyCalls, flushCalls, flushedLen,
                  installed, trail >>

\* An async underlying calls the callback at its own declared position:
\* the original callback, which it was handed among fnArgs.
FireOriginal(i, j, r) ==
  /\ invs[i].tap.type = "async"
  /\ invs[i].st = "inflight"
  /\ CallbackCalls(Len(invs)) < MaxFire
  /\ j \in DOMAIN invs[i].fnArgs
  /\ invs[i].fnArgs[j] = OrigCb
  /\ invs' = [invs EXCEPT ![i].direct = @ + 1,
                          ![i].cbCalls = Append(@, [callee |-> OrigCb, given |-> r,
                                                    got |-> r, at |-> Len(log)])]
  /\ UNCHANGED << inspector, phase, session, cmds, startPromise, stopCmd,
                  unhandled, counter, log, destroyCalls, flushCalls, flushedLen,
                  installed, trail >>

Next ==
  \/ \E answers \in PostAnswers : Apply(answers)
  \/ StartPromiseSettles
  \/ \E n \in DOMAIN StartCommandSeq, err \in BOOLEAN : AckStart(n, err)
  \/ Done
  \/ SleepElapsed
  \/ \E p \in SampleProfiles : AckStop(FALSE, << [profile |-> p] >>)
  \/ AckStop(FALSE, <<>>)
  \/ AckStop(TRUE, <<>>)
  \/ \E tap \in Taps, a \in HostArgs :
        \E beh \in Behaviours(tap.type), inner \in InnerCalls(tap.type) :
           Invoke(tap, a, beh, inner)
  \/ \E i \in DOMAIN invs, v \in Values : SettlePromise(i, "ok", v)
  \/ \E i \in DOMAIN invs, e \in Errors : SettlePromise(i, "err", e)
  \/ \E i \in DOMAIN invs, r \in CbResults : FireReplacement(i, r)
  \/ \E i \in DOMAIN invs, r \in DirectResults :
        \E j \in DOMAIN invs[i].fnArgs : FireOriginal(i, j, r)

Spec == Init /\ [][Next]_vars

\* The run on a Node without the inspector module (the catch on lines 7-9
\* leaves inspector null) of a build whose plugins register sync and
\* promise taps: no session exists, so no command is ever posted or
\* answered.
InitNoInspector == Init /\ inspector = FALSE

NextNoInspector ==
  \/ \E answers \in PostAnswers : Apply(answers)
  \/ Done
  \/ SleepElapsed
  \/ \E tap \in { t \in Taps : t.type # "async" }, a \in HostArgs :
        \E beh \in Behaviours(tap.type), inner \in InnerCalls(tap.type) :
           (\A n \in DOMAIN inner : inner[n].tap.type # "async")
           /\ Invoke(tap, a, beh, inner)
  \/ \E i \in DOMAIN invs, v \in Values : SettlePromise(i, "ok", v)
  \/ \E i \in DOMAIN invs, e \in Errors : SettlePromise(i, "err", e)

SpecNoInspector == InitNoInspector /\ [][NextNoInspector]_vars

\* The run of a build whose plugins register sync taps only: the profiler
\* session and the done handler chain are as in Spec, the hooks called are
\* the sync ones (a sync underlying may call another sync hook).
NextSyncTaps ==
  \/ \E answers \in PostAnswers : Apply(answers)
  \/ StartPromiseSettles
  \/ \E n \in DOMAIN StartCommandSeq, err \in BOOLEAN : AckStart(n, err)
  \/ Done
  \/ SleepElapsed
  \/ \E p \in SampleProfiles : AckStop(FALSE, << [profile |-> p] >>)
  \/ AckStop(FALSE, <<>>)
  \/ AckStop(TRUE, <<>>)
  \/ \E tap \in { t \in Taps : t.type = "sync" }, a \in HostArgs :
        \E beh \in Behaviours(tap.type), inner \in InnerCalls(tap.type) :
           (\A n \in DOMAIN inner : inner[n].tap.type = "sync")
           /\ Invoke(tap, a, beh, inner)

SpecSyncTaps == Init /\ [][NextSyncTaps]_vars

\* ------------------------------------------------------------- properties
BeginsOf(id) == { k \in DOMAIN log : log[k].ph = "B" /\ log[k].id = id }
EndsOf(id) == { k \in DOMAIN log : log[k].ph = "E" /\ log[k].id = id }
Ids == { log[k].id : k \in DOMAIN log }

\* The underlying of invocation i has settled and the wrapper has seen it:
\* a sync call is over, a thrown call is over, a promise's reaction has
\* run, an async underlying has completed through a callback it was given.
Settled(i) ==
  \/ invs[i].st \in {"returned", "threw", "resolved", "rejected"}
  \/ invs[i].st = "inflight" /\ invs[i].fired + invs[i].direct > 0

\* C1: once the underlying of a wrapped hook invocation has settled in any
\* way, the log holds an end event with the invocation's id, later than its
\* begin event.
C1_EndAfterSettlement ==
  \A i \in DOMAIN invs :
    Settled(i) =>
      \E b \in BeginsOf(invs[i].id), e \in EndsOf(invs[i].id) : b < e

\* C2: a wrapped sync hook returns the value its underlying returned, or
\* throws the error its underlying threw, and the log holds exactly one
\* begin event with its id, appended before the underlying ran, and exactly
\* one end event with that id, appended after it.
C2_SyncTransparent ==
  \A i \in DOMAIN invs :
    invs[i].tap.type = "sync" =>
      /\ invs[i].out = invs[i].under
      /\ Cardinality(BeginsOf(invs[i].id)) = 1
      /\ Cardinality(EndsOf(invs[i].id)) = 1
      /\ \A b \in BeginsOf(invs[i].id) : b <= invs[i].fnAt
      /\ \A e \in EndsOf(invs[i].id) : e > invs[i].fnAt

\* A sync invocation whose underlying threw has happened, inside the
\* underlying of a sync invocation that returned: the outer end event
\* comes after the inner call's events.
C2_Witness ==
  \E i, j \in DOMAIN invs :
    /\ invs[i].tap.type = "sync" /\ invs[i].st = "returned"
    /\ invs[i].under = << Ret("v2") >>
    /\ invs[j].tap.type = "sync" /\ invs[j].st = "threw"
    /\ invs[j].under = << Throw("e2") >>
    /\ invs[i].fnAt < invs[j].fnAt
    /\ invs[j].outAt < invs[i].outAt

\* C3: when the underlying of a wrapped promise hook has rejected with E,
\* the wrapper's promise is rejected (not resolved) with that same E.
C3_RejectionPassesThrough ==
  \A i \in DOMAIN invs :
    (/\ invs[i].tap.type = "promise"
     /\ invs[i].under # <<>>
     /\ invs[i].under[1].k = "err")
    => /\ invs[i].st = "rejected"
       /\ invs[i].out = << [k |-> "rejected", v |-> invs[i].under[1].v] >>

\* The wrapper's promise of an invocation whose underlying rejected with
\* e2 has been rejected.
C3_Witness ==
  \E i \in DOMAIN invs :
    /\ invs[i].tap.type = "promise"
    /\ invs[i].under = << [k |-> "err", v |-> "e2"] >>
    /\ invs[i].st = "rejected"

\* C4: the original trailing callback of a wrapped async hook is called
\* only after the end event with the invocation's id is in the log, and
\* with exactly the argument list the underlying completed with.
C4_CallbackAfterEnd ==
  \A i \in DOMAIN invs :
    invs[i].tap.type = "async" =>
      \A n \in DOMAIN invs[i].cbCalls :
        /\ \E e \in EndsOf(invs[i].id) : e <= invs[i].cbCalls[n].at
        /\ invs[i].cbCalls[n].got = invs[i].cbCalls[n].given

\* C5: the ids of the non-end events are strictly increasing in log order,
\* and two events share an id only if they are the begin and the end of
\* one hook invocation.
C5_IdsIncreasingUnique ==
  \A j, k \in DOMAIN log :
    j < k =>
      /\ (log[j].ph # "E" /\ log[k].ph # "E") => log[j].id < log[k].id
      /\ log[j].id = log[k].id =>
           /\ log[j].ph = "B"
           /\ log[k].ph = "E"
           /\ log[j].inv = log[k].inv
           /\ log[j].inv # 0

\* C6: for every id the log holds at most one begin event and at most one
\* end event, and every end event is preceded by a begin event with its id.
C6_PairedEvents ==
  \A id \in Ids :
    /\ Cardinality(BeginsOf(id)) <= 1
    /\ Cardinality(EndsOf(id)) <= 1
    /\ \A e \in EndsOf(id) : \E b \in BeginsOf(id) : b < e

\* The chain started by the done handler has run as far as it ever will.
FinalizationOver == phase \in {"finalized", "stopRejected"}

\* C7: after the done signal destroy() is called exactly once, whether
\* stopProfiling yields a sample, yields nothing, or fails.
C7_DestroyOnce ==
  /\ destroyCalls <= 1
  /\ FinalizationOver => destroyCalls = 1

CommandFailed ==
  \/ \E c \in StartCommands : cmds[c] = "rejected"
  \/ stopCmd.k = "rejected"

\* C8: when a command posted to the session fails, no rejection reaches
\* the host, no merge event is appended, and the log is flushed by the time
\* the finalization chain is over.
C8_CommandFailureRecovered ==
  CommandFailed =>
    /\ unhandled = {}
    /\ \A k \in DOMAIN log : log[k].name \notin MergeNames
    /\ FinalizationOver => flushCalls >= 1

\* C9: once the log has been flushed, no event is appended to it.
C9_NoAppendAfterFlush ==
  flushCalls > 0 => Len(log) = flushedLen

\* C10: whenever the interceptors are installed (apply has run), the
\* start operation has completed: every command it posted is acknowledged
\* and its promise is resolved.
C10_StartCompletesBeforeInstrumentation ==
  phase # "idle" =>
    /\ startPromise = "resolved"
    /\ \A c \in StartCommands : cmds[c] \in {"unsent", "resolved"}


\* The stop command was answered with a profile.
HasSample == stopCmd.k = "resolved" /\ stopCmd.params # <<>>
Sample == stopCmd.params[1].profile

\* C11: for a sample with startTime s and endTime e the log holds, in this
\* order and all before the flush, the toplevel container event, a complete
\* event with ts = s and dur = e - s, and an instant event with ts = e whose
\* args hold the whole profile.
C11_MergeOrder ==
  HasSample =>
    /\ flushCalls = 1
    /\ \E t, x, c \in 1..flushedLen :
         /\ t < x /\ x < c
         /\ log[t].ph = "X" /\ log[t].cat = "toplevel"
         /\ log[t].name = "TaskQueueManager::ProcessTaskFromWorkQueue"
         /\ log[x].ph = "X"
         /\ log[x].ts = << Sample.startTime >>
         /\ log[x].dur = << Sample.endTime - Sample.startTime >>
         /\ log[c].ph = "I"
         /\ log[c].ts = << Sample.endTime >>
         /\ log[c].args = << [data |-> [cpuProfile |-> Sample]] >>

\* The sample 1000..5000 has been merged: a complete event with ts 1000 and
\* dur 4000 is in the log, after a hook's events.
C11_Witness ==
  /\ HasSample
  /\ Sample = [startTime |-> 1000, endTime |-> 5000]
  /\ invs # <<>>
  /\ \E x \in DOMAIN log : log[x].ts = << 1000 >> /\ log[x].dur = << 4000 >>

\* C12: without the inspector, startProfiling and stopProfiling resolve
\* without error, the first two events are the bootstrap instants, every
\* other event is a hook's begin or end (no merge event), and once the
\* sleep has elapsed the log has been flushed.
C12_NoInspectorRun ==
  ~inspector =>
    /\ unhandled = {}
    /\ startPromise \in {"none", "resolved"}
    /\ stopCmd.k \in {"unsent", "undefined"}
    /\ phase \in {"idle", "awaiting", "sleeping", "finalized"}
    /\ phase = "finalized" <=> flushCalls = 1
    /\ phase # "idle" =>
         /\ Len(log) >= 2
         /\ log[1].ph = "I" /\ log[1].name = "TracingStartedInPage"
         /\ log[2].ph = "I" /\ log[2].name = "TracingStartedInBrowser"
    /\ \A k \in DOMAIN log :
         /\ log[k].name \notin MergeNames
         /\ k > 2 => (log[k].ph \in {"B", "E"} /\ log[k].inv # 0)

\* A run without inspector has been flushed with hook events in the log.
C12_Witness ==
  /\ ~inspector
  /\ phase = "finalized"
  /\ flushCalls = 1
  /\ flushedLen > 2

\* C13: when the underlying of a wrapped promise hook has resolved with v,
\* the wrapper's promise is resolved with the same v, and the invocation's
\* one end event comes after its begin event in the log (the tracer stamps
\* events as they are appended) and is in the log when the caller sees the
\* resolution.
C13_ResolutionPassesThrough ==
  \A i \in DOMAIN invs :
    (/\ invs[i].tap.type = "promise"
     /\ invs[i].under # <<>>
     /\ invs[i].under[1].k = "ok")
    => /\ invs[i].st = "resolved"
       /\ invs[i].out = << [k |-> "resolved", v |-> invs[i].under[1].v] >>
       /\ Cardinality(EndsOf(invs[i].id)) = 1
       /\ \A e \in EndsOf(invs[i].id) :
            /\ \E b \in BeginsOf(invs[i].id) : b < e
            /\ e <= invs[i].outAt

\* A promise invocation has resolved with v2 after another invocation began.
C13_Witness ==
  \E i \in DOMAIN invs :
    /\ invs[i].tap.type = "promise"
    /\ invs[i].st = "resolved"
    /\ invs[i].under = << [k |-> "ok", v |-> "v2"] >>
    /\ \E j \in DOMAIN invs : j > i


\* The one hook call of the run so far, made before the done signal, was
\* of a sync tap on the hook named "build" whose callable returned 42
\* (having called no other hook).
C14Case ==
  /\ Len(invs) = 1
  /\ trail = <<>>
  /\ invs[1].tap.type = "sync"
  /\ invs[1].tap.hookName = "build"
  /\ invs[1].under = << Ret("42") >>

\* C14 as stated: the begin and end events of that call carry the name
\* "build" and the id 1, and the call returns 42.
C14_FirstHookIdOne ==
  C14Case =>
    /\ log[3].ph = "B" /\ log[3].name = "build" /\ log[3].id = 1
    /\ invs[1].out = << Ret("42") >>
    /\ log[4].ph = "E" /\ log[4].name = "build" /\ log[4].id = 1

\* C14 as amended: the begin and end events of that call carry the name the
\* tap was registered under and the id 3 (the bootstrap events hold ids 1
\* and 2), they follow the bootstrap events directly, and the call returns
\* 42.
C14_FirstHookIdThree ==
  C14Case =>
    /\ log[3].ph = "B" /\ log[3].name = invs[1].tap.name /\ log[3].id = 3
    /\ invs[1].out = << Ret("42") >>
    /\ log[4].ph = "E" /\ log[4].name = invs[1].tap.name /\ log[4].id = 3
    /\ invs[1].fnAt = 3

\* The scenario has run: one call, of the sync tap on "build", returned 42.
C14_Witness ==
  /\ C14Case
  /\ phase = "awaiting"
  /\ Len(log) = 4

\* The values of an event that the tracer receives (inv is bookkeeping).
EventValues(ev) == { ev.name, ev.cat } \cup { ev.args[n] : n \in DOMAIN ev.args }

\* C15: every begin and end event of a wrapped hook carries the label of
\* the registry the hook was intercepted on.
C15_EventsCarryLabel ==
  \A k \in DOMAIN log :
    log[k].inv # 0 => invs[log[k].inv].tap.label \in EventValues(log[k])

\* C16: the underlying of a wrapped async hook called with (a1..an, cb) is
\* called with (a1..an, replacement): as many arguments as the host passed,
\* the original callback not among them.
C16_UnderlyingArgs ==
  \A i \in DOMAIN invs :
    invs[i].tap.type = "async" =>
      /\ \E a \in HostArgs :
           /\ invs[i].fnArgs = a \o << ReplCb >>
           /\ Len(invs[i].fnArgs) = Len(CallArgs("async", a))
      /\ \A n \in DOMAIN invs[i].fnArgs : invs[i].fnArgs[n] # OrigCb

\* The finalization steps in the order of the done handler.
FinalOrder ==
  << "done", "sleepElapsed", "stopProfiling", "stopSettled", "merge",
     "destroy", "flush" >>

Rank(step) == CHOOSE n \in DOMAIN FinalOrder : FinalOrder[n] = step

Steps == { trail[n] : n \in DOMAIN trail }

Times(step) == Cardinality({ n \in DOMAIN trail : trail[n] = step })

\* C17: the finalization steps happen in the order done, delay elapsed,
\* stopProfiling issued, stopProfiling completed, merge (only with a
\* sample), destroy, flush; each step has every earlier one but the merge
\* before it, and no stop command, destroy or flush exists before done.
C17_FinalizationOrder ==
  /\ \A a, b \in DOMAIN trail : a < b => Rank(trail[a]) < Rank(trail[b])
  /\ \A a \in DOMAIN trail :
       \A n \in 1..(Rank(trail[a]) - 1) :
         FinalOrder[n] # "merge" => FinalOrder[n] \in Steps
  /\ "done" \notin Steps =>
       stopCmd.k = "unsent" /\ destroyCalls = 0 /\ flushCalls = 0
  /\ "stopProfiling" \in Steps <=> stopCmd.k # "unsent"
  /\ "stopSettled" \in Steps <=> stopCmd.k \notin {"unsent", "pending"}
  /\ "merge" \in Steps <=> \E k \in DOMAIN log : log[k].name = "CpuProfile"
  /\ "merge" \in Steps => HasSample
  /\ destroyCalls = Times("destroy")
  /\ flushCalls = Times("flush")
  /\ flushCalls >= 1 => destroyCalls >= 1 /\ session # "connected"

\* A run with a session and a sample went through every step, after a
\* hook was called.
C17_Witness ==
  /\ trail = FinalOrder
  /\ inspector
  /\ invs # <<>>
  /\ flushCalls = 1

\* C18: both complete events of the merge have ts = startTime and
\* dur = endTime - startTime of the sample.
C18_CompleteEventsSameWindow ==
  HasSample =>
    \A k \in DOMAIN log :
      log[k].ph = "X" =>
        /\ log[k].ts = << Sample.startTime >>
        /\ log[k].dur = << Sample.endTime - Sample.startTime >>

\* C19: a firing of the replacement callback leaves the arguments the
\* invocation captured as they were, and every firing reaches the original
\* callback (none finds something else in its place).
C19_CapturedArgsUnchanged ==
  \A i \in DOMAIN invs :
    invs[i].tap.type = "async" =>
      /\ invs[i].args \o << ReplCb >> = invs[i].fnArgs
      /\ invs[i].typeErrors = 0

\* C20: register never installs a tap without a callable for a type that
\* is none of sync, async, promise.
C20_UnknownTypeKeepsCallable ==
  \A t \in DOMAIN installed :
    t.type \notin {"sync", "async", "promise"} => installed[t].fn # "undefined"

====
